---- MODULE Spec2Model ----
(***************************************************************************)
(* Model of the stop-loss / take-profit automation loop of script.py and   *)
(* of the exchange calls it issues through bitunix_api.                    *)
(*                                                                         *)
(* One iteration of `while True` in main() is one action.  The iteration   *)
(* records every exchange call and every pause it performs, in order, in   *)
(* `calls`, and what it observed and which branch it took in `tick`.       *)
(* Prices are integers counted in units of 10^(-PriceDigits).              *)
(*                                                                         *)
(* The pure functions of the request layer and of the price arithmetic are *)
(* applied, one application per step, under the specification CalcSpec;    *)
(* `applied` holds the inputs and the result of the latest application.    *)
(***************************************************************************)
EXTENDS Integers, Sequences, FiniteSets, TLC

VARIABLES
    symbol,                  \* script.py global `symbol`
    stop_loss_usd,           \* script.py global `stop_loss_usd`
    is_active,               \* script.py global `is_active`
    tracked_position_value,  \* script.py global `tracked_position_value`
    is_tp_active,            \* script.py global `is_tp_active`
    tp_percentage,           \* script.py global `tp_percentage`
    position,                \* exchange: open position of each symbol, as of the latest poll
    orders,                  \* exchange: pending orders (conditional and plain)
    calls,                   \* calls and pauses of the latest loop iteration
    tick,                    \* what the latest loop iteration saw and did
    applied                  \* latest application of a pure function (CalcSpec)

engine == <<symbol, stop_loss_usd, is_active, tracked_position_value,
            is_tp_active, tp_percentage, position, orders, calls, tick>>

vars == <<engine, applied>>

----------------------------------------------------------------------------
(* Bounds of the model *)

\* pending orders the exchange accepts per symbol before rejecting
MaxPending == 2
\* decimal digits of the model's price grid
PriceDigits == 2
\* calls of one reconciliation that may fail
MaxFaults == 1

----------------------------------------------------------------------------
(* Values *)

RECURSIVE Pow10(_)
Pow10(n) == IF n <= 0 THEN 1 ELSE 10 * Pow10(n - 1)

\* Python's None, as returned by get_user_settings and the resource clients
None == "None"

\* float("nan"), which float() accepts from the operator: a value apart from
\* every number of the model, on which no arithmetic is done
NaN == 0 - 1073741824

\* x <= 0 on floats: false when x is not a number
Leq0(x) == x # NaN /\ x <= 0

Symbols == {"BTCUSDT"}

NoPosition == [qty |-> 0, side |-> "", entryValue |-> 0, avgOpenPrice |-> 0,
               positionId |-> 0, present |-> FALSE]

\* the entry price every modelled position was opened at: 100 quote units
EntryPrice == 100 * Pow10(PriceDigits)

PositionId(sym) == 1

\* a position of `q` contracts; its notional value is entry price x quantity
OpenPosition(sym, q, s) ==
    [qty |-> q, side |-> s, entryValue |-> 100 * q, avgOpenPrice |-> EntryPrice,
     positionId |-> PositionId(sym), present |-> TRUE]

\* what the exchange can report for a symbol: nothing, a zero-quantity
\* position, a long position of one or two contracts, or a short position
PositionStates(sym) ==
    {NoPosition, OpenPosition(sym, 0, "BUY"), OpenPosition(sym, 1, "BUY"),
     OpenPosition(sym, 2, "BUY"), OpenPosition(sym, 1, "SELL")}

\* outcome of one HTTP call: the payload comes back, or the transport raises
Outcomes == {"ok", "raise"}

\* the quote precision the exchange declares for an instrument
QuotePrecision(sym) == 0

----------------------------------------------------------------------------
(* The record of calls *)

\* `ids` holds the orders a lookup returned or a cancellation named, `info`
\* what the instrument lookup answered
CallRec(op, sym, ok) ==
    [op |-> op, symbol |-> sym, ok |-> ok, ids |-> {}, price |-> 0,
     side |-> "", qty |-> 0, orderType |-> "", tradeSide |-> "", secs |-> 0,
     info |-> ""]

Sleep(n) == [CallRec("sleep", "", TRUE) EXCEPT !.secs = n]

\* indices of the calls of one kind
Idx(cs, op) == {i \in 1..Len(cs) : cs[i].op = op}

----------------------------------------------------------------------------
(* The exchange, as reached through bitunix_api *)

\* An order is identified by its content and, among orders of equal content,
\* by a serial number: the smallest one not in use.  The order record itself
\* stands for the order id the exchange reports and accepts.
NewOrder(os, o) ==
    [o EXCEPT !.id =
        CHOOSE i \in 1..(Cardinality(os) + 1) :
            /\ [o EXCEPT !.id = i] \notin os
            /\ \A j \in 1..(i - 1) : [o EXCEPT !.id = j] \in os]

\* the exchange rejects a placement once MaxPending orders are pending for the
\* symbol
Accepts(os, sym) ==
    Cardinality({o \in os : o.symbol = sym}) < MaxPending

\* AccountAPI.get_symbol_open_position: response[0] of a non-empty list,
\* else None
get_symbol_open_position(w, sym, outcome) ==
    [orders |-> w.orders,
     calls  |-> Append(w.calls, CallRec("get_symbol_open_position", sym, outcome # "raise")),
     raised |-> outcome = "raise",
     ret    |-> IF outcome # "raise" /\ sym \in Symbols /\ w.position[sym].present
                THEN IF outcome = "zerovalue"
                     THEN [w.position[sym] EXCEPT !.entryValue = 0]
                     ELSE w.position[sym]
                ELSE NoPosition]

\* TradeAPI.get_symbol_pending_tpsl_orders
get_symbol_pending_tpsl_orders(w, sym, outcome) ==
    [orders |-> w.orders,
     calls  |-> Append(w.calls,
                    [CallRec("get_symbol_pending_tpsl_orders", sym, outcome = "ok") EXCEPT
                        !.ids = IF outcome = "ok"
                                THEN {o \in w.orders : o.symbol = sym /\ o.tpsl} ELSE {}]),
     raised |-> outcome = "raise",
     ret    |-> IF outcome = "ok"
                THEN {o \in w.orders : o.symbol = sym /\ o.tpsl} ELSE {}]

\* TradeAPI.get_symbol_open_orders: the payload's orderList
get_symbol_open_orders(w, sym, outcome) ==
    [orders |-> w.orders,
     calls  |-> Append(w.calls,
                    [CallRec("get_symbol_open_orders", sym, outcome = "ok") EXCEPT
                        !.ids = IF outcome = "ok"
                                THEN {o \in w.orders : o.symbol = sym /\ ~o.tpsl} ELSE {}]),
     raised |-> outcome = "raise",
     ret    |-> IF outcome = "ok"
                THEN {o \in w.orders : o.symbol = sym /\ ~o.tpsl} ELSE {}]

\* TradeAPI.cancel_orders: the orders of the id list are cancelled
cancel_orders(w, sym, idList, outcome) ==
    [orders |-> IF outcome = "ok"
                THEN {o \in w.orders : ~(o.symbol = sym /\ o \in idList)}
                ELSE w.orders,
     calls  |-> Append(w.calls,
                    [CallRec("cancel_orders", sym, outcome = "ok") EXCEPT !.ids = idList]),
     raised |-> outcome = "raise",
     ret    |-> {}]

\* TradeAPI.cancel_all_orders: every order of the symbol is cancelled
cancel_all_orders(w, sym, outcome) ==
    [orders |-> IF outcome = "ok"
                THEN {o \in w.orders : o.symbol # sym}
                ELSE w.orders,
     calls  |-> Append(w.calls, CallRec("cancel_all_orders", sym, outcome = "ok")),
     raised |-> outcome = "raise",
     ret    |-> {}]

\* the exchange takes a price that is a number on the tick grid of the
\* instrument and refuses any other, the rejection adjust_price_to_precision
\* is there to prevent
OnTick(sym, price) ==
    /\ price # NaN
    /\ price % Pow10(PriceDigits - QuotePrecision(sym)) = 0

\* TradeAPI.place_position_tpsl_order with sl_price only
place_position_tpsl_order(w, sym, position_id, sl_price, outcome) ==
    LET ok == outcome = "ok" /\ Accepts(w.orders, sym) /\ OnTick(sym, sl_price)
        o  == [id |-> 1, symbol |-> sym, tpsl |-> TRUE,
               orderType |-> "STOP", side |-> "", price |-> sl_price, qty |-> 0,
               tradeSide |-> "CLOSE", positionId |-> position_id, engine |-> TRUE]
    IN [orders |-> IF ok THEN w.orders \cup {NewOrder(w.orders, o)} ELSE w.orders,
        calls  |-> Append(w.calls,
                       [CallRec("place_position_tpsl_order", sym, ok) EXCEPT !.price = sl_price]),
        raised |-> ~ok,
        ret    |-> {}]

\* TradeAPI.place_order as set_limit_tp_order calls it
place_order(w, sym, side, order_type, qty, price, trade_side, position_id, outcome) ==
    LET ok == outcome = "ok" /\ Accepts(w.orders, sym) /\ OnTick(sym, price)
        o  == [id |-> 1, symbol |-> sym, tpsl |-> FALSE,
               orderType |-> order_type, side |-> side, price |-> price, qty |-> qty,
               tradeSide |-> trade_side, positionId |-> position_id, engine |-> TRUE]
    IN [orders |-> IF ok THEN w.orders \cup {NewOrder(w.orders, o)} ELSE w.orders,
        calls  |-> Append(w.calls,
                       [CallRec("place_order", sym, ok) EXCEPT
                            !.price = price, !.side = side, !.qty = qty,
                            !.orderType = order_type, !.tradeSide = trade_side]),
        raised |-> ~ok,
        ret    |-> {}]

\* what adjust_price_to_precision can take from the answer of the instrument
\* lookup: an answer of None and an instrument without quotePrecision both
\* leave it without a precision
Usable(kind) == IF kind \in {"none", "noprec"} THEN "noprecision" ELSE kind

\* MarketAPI.get_single_trading_pair_info: response[0] of a non-empty list,
\* else None
get_single_trading_pair_info(w, sym, info) ==
    [orders |-> w.orders,
     calls  |-> Append(w.calls,
                    [CallRec("get_single_trading_pair_info", sym, info.kind # "raise") EXCEPT
                        !.info = Usable(info.kind)]),
     raised |-> info.kind = "raise",
     ret    |-> info]

----------------------------------------------------------------------------
(* script.py: auxiliary and core trading functions *)

\* the quantization with ROUND_HALF_UP in place of ROUND_DOWN
RoundDown_HalfUp(price, digits, quote_precision) ==
    IF price = NaN \/ quote_precision >= digits
    THEN price
    ELSE LET tick_size == Pow10(digits - quote_precision)
         IN ((price + tick_size \div 2) \div tick_size) * tick_size

\* (price / tick_size) quantized ROUND_DOWN, times tick_size, for a price
\* counted in units of 10^(-digits) and tick_size = 10^(-quote_precision)
RoundDown(price, digits, quote_precision) ==
    IF price = NaN \/ quote_precision >= digits
    THEN price
    ELSE LET tick_size == Pow10(digits - quote_precision)
         IN (price \div tick_size) * tick_size

\* the same on the price grid of the engine
RoundDownToTick(price, quote_precision) ==
    RoundDown(price, PriceDigits, quote_precision)

\* adjust_price_to_precision without its except clause: a failing instrument
\* lookup fails the caller
adjust_price_to_precision_FailClosed(w, sym, price, info) ==
    LET r == get_single_trading_pair_info(w, sym, info)
    IN [orders |-> r.orders,
        calls  |-> r.calls,
        raised |-> r.raised,
        ret    |-> IF r.raised THEN price
                   ELSE IF info.kind = "none" THEN price
                   ELSE IF info.kind = "noprec" THEN price
                   ELSE RoundDownToTick(price, info.quotePrecision)]

adjust_price_to_precision(w, sym, price, info) ==
    LET r == get_single_trading_pair_info(w, sym, info)
    IN [orders |-> r.orders,
        calls  |-> r.calls,
        raised |-> FALSE,
        ret    |-> IF r.raised THEN price
                   ELSE IF info.kind = "none" THEN price
                   ELSE IF info.kind = "noprec" THEN price
                   ELSE RoundDownToTick(price, info.quotePrecision)]

cancel_existing_tpsl_orders(w, sym, oGet, oCancel) ==
    LET r == get_symbol_pending_tpsl_orders(w, sym, oGet)
    IN IF r.raised
       THEN [orders |-> r.orders, calls |-> r.calls, raised |-> FALSE, ret |-> {}]
       ELSE IF r.ret # {}
            THEN LET c == cancel_orders(r, sym, r.ret, oCancel)
                 IN [orders |-> c.orders, calls |-> c.calls, raised |-> FALSE, ret |-> {}]
            ELSE [orders |-> r.orders, calls |-> r.calls, raised |-> FALSE, ret |-> {}]

OppositeSide(side) == IF side = "BUY" THEN "SELL" ELSE "BUY"

\* the take-profit cleanup selecting the orders on the position's own side
cancel_existing_tp_limit_orders_SameSide(w, sym, position_side, oGet, oCancel) ==
    LET r == get_symbol_open_orders(w, sym, oGet)
        tp_orders_to_cancel ==
            {o \in r.ret : o.orderType = "LIMIT" /\ o.side = position_side}
    IN IF r.raised
       THEN [orders |-> r.orders, calls |-> r.calls, raised |-> FALSE, ret |-> {}]
       ELSE IF r.ret = {}
            THEN [orders |-> r.orders, calls |-> r.calls, raised |-> FALSE, ret |-> {}]
            ELSE IF tp_orders_to_cancel # {}
                 THEN LET c == cancel_orders(r, sym, tp_orders_to_cancel, oCancel)
                      IN [orders |-> c.orders, calls |-> c.calls, raised |-> FALSE, ret |-> {}]
                 ELSE [orders |-> r.orders, calls |-> r.calls, raised |-> FALSE, ret |-> {}]

cancel_existing_tp_limit_orders(w, sym, position_side, oGet, oCancel) ==
    LET opposite_side == OppositeSide(position_side)
        r == get_symbol_open_orders(w, sym, oGet)
        tp_orders_to_cancel ==
            {o \in r.ret : o.orderType = "LIMIT" /\ o.side = opposite_side}
    IN IF r.raised
       THEN [orders |-> r.orders, calls |-> r.calls, raised |-> FALSE, ret |-> {}]
       ELSE IF r.ret = {}
            THEN [orders |-> r.orders, calls |-> r.calls, raised |-> FALSE, ret |-> {}]
            ELSE IF tp_orders_to_cancel # {}
                 THEN LET c == cancel_orders(r, sym, tp_orders_to_cancel, oCancel)
                      IN [orders |-> c.orders, calls |-> c.calls, raised |-> FALSE, ret |-> {}]
                 ELSE [orders |-> r.orders, calls |-> r.calls, raised |-> FALSE, ret |-> {}]

\* set_position_sl without its except clause: the placement error escapes
set_position_sl_Propagating(w, sym, position_id, sl_price, info, oPlace) ==
    LET a == adjust_price_to_precision(w, sym, sl_price, info)
        p == place_position_tpsl_order(a, sym, position_id, a.ret, oPlace)
    IN [orders |-> p.orders, calls |-> p.calls, raised |-> p.raised, ret |-> {}]

set_position_sl(w, sym, position_id, sl_price, info, oPlace) ==
    LET a == adjust_price_to_precision(w, sym, sl_price, info)
        p == place_position_tpsl_order(a, sym, position_id, a.ret, oPlace)
    IN \* try/except around the placement only: returns None on failure
       IF a.raised
       THEN a
       ELSE [orders |-> p.orders, calls |-> p.calls, raised |-> FALSE, ret |-> {}]

\* set_limit_tp_order placing the order on the side of the position
set_limit_tp_order_SameSide(w, sym, side, position_id, position_qty, tp_price, info, oPlace) ==
    LET a == adjust_price_to_precision(w, sym, tp_price, info)
        p == place_order(a, sym, side, "LIMIT", position_qty, a.ret, "CLOSE",
                         position_id, oPlace)
    IN IF a.raised
       THEN a
       ELSE [orders |-> p.orders, calls |-> p.calls, raised |-> FALSE, ret |-> {}]

set_limit_tp_order(w, sym, side, position_id, position_qty, tp_price, info, oPlace) ==
    LET close_side == OppositeSide(side)
        a == adjust_price_to_precision(w, sym, tp_price, info)
        p == place_order(a, sym, close_side, "LIMIT", position_qty, a.ret, "CLOSE",
                         position_id, oPlace)
    IN IF a.raised
       THEN a
       ELSE [orders |-> p.orders, calls |-> p.calls, raised |-> FALSE, ret |-> {}]

----------------------------------------------------------------------------
(* script.py: operator input *)

\* what the operator may type at a numeric prompt: text float() rejects, or
\* a number, nan among them
NotANumber == [numeric |-> FALSE, val |-> 0]
Number(n) == [numeric |-> TRUE, val |-> n]

TickerInputs == {"", "btc"}
SlInputs == {NotANumber, Number(0), Number(5), Number(100), Number(NaN)}
TpChoices == {"y", "n"}
\* take-profit percentages are counted in tenths of a percent: 15 is the
\* answer 1.5
TpScale == 10
TpInputs == {NotANumber, Number(0), Number(15)}

\* str.upper() on the tickers the operator types
Upper(t) == IF t = "btc" THEN "BTC" ELSE t

\* str.lower() on the answers the operator types
Lower(t) == IF t = "Y" THEN "y" ELSE t

\* The prompts are asked in order and a rejected answer ends the dialogue:
\* the answers never asked for are left at a fixed value.  The operator who
\* answers nan for the budget declines the take-profit.
UserInputs ==
    {in \in [tck : TickerInputs, sl : SlInputs, ch : TpChoices, tp : TpInputs] :
        /\ (in.tck = "" => in.sl = NotANumber)
        /\ (~in.sl.numeric \/ Leq0(in.sl.val) => in.ch = "n")
        /\ (in.ch # "y" => in.tp = NotANumber)
        /\ (in.sl.val = NaN => in.ch = "n")}

InvalidSettings ==
    [symbol |-> None, stop_loss_usd |-> 0, is_tp_active |-> FALSE, tp_percentage |-> 0]

get_user_settings(tickInput, slInput, tpChoice, tpInput) ==
    LET tck == Upper(tickInput)
    IN IF tck = "" THEN InvalidSettings
       ELSE IF ~slInput.numeric THEN InvalidSettings
       ELSE IF Leq0(slInput.val) THEN InvalidSettings
       ELSE [symbol        |-> tck \o "USDT",
             stop_loss_usd |-> slInput.val,
             is_tp_active  |-> Lower(tpChoice) = "y" /\ tpInput.numeric /\ tpInput.val > 0,
             tp_percentage |-> IF Lower(tpChoice) = "y" /\ tpInput.numeric /\ tpInput.val > 0
                               THEN tpInput.val ELSE 0]

\* what get_user_settings can return to main()
UserSettings == {get_user_settings(in.tck, in.sl, in.ch, in.tp) : in \in UserInputs}

----------------------------------------------------------------------------
(* script.py: the tracking state *)

Globals ==
    [symbol |-> symbol, stop_loss_usd |-> stop_loss_usd, is_active |-> is_active,
     tracked_position_value |-> tracked_position_value,
     is_tp_active |-> is_tp_active, tp_percentage |-> tp_percentage]

\* the module-level assignments of script.py
DefaultGlobals ==
    [symbol |-> "", stop_loss_usd |-> 0, is_active |-> FALSE,
     tracked_position_value |-> 0, is_tp_active |-> FALSE, tp_percentage |-> 0]

\* reset_bot_state without its assignment to symbol
reset_bot_state_KeepsSymbol(g) ==
    [g EXCEPT !.is_active = FALSE, !.tracked_position_value = 0,
              !.is_tp_active = FALSE, !.tp_percentage = 0]

\* reset_bot_state assigns five of the six globals
reset_bot_state(g) ==
    [g EXCEPT !.is_active = FALSE, !.tracked_position_value = 0, !.symbol = "",
              !.is_tp_active = FALSE, !.tp_percentage = 0]

----------------------------------------------------------------------------
(* script.py: main(), the reconciliation arithmetic and order replacement *)

\* percentage = (stop_loss_usd * 100) / position_value_usdt;
\* price_variation = entry_price * (percentage / 100)
PriceVariation(entry_price, sl_usd, position_value_usdt) ==
    IF sl_usd = NaN THEN NaN
    ELSE (entry_price * sl_usd * 100) \div (position_value_usdt * 100)

\* line 266 with the two signs exchanged
StopPrice_Inverted(entry_price, sl_usd, position_value_usdt, side) ==
    IF PriceVariation(entry_price, sl_usd, position_value_usdt) = NaN THEN NaN
    ELSE IF side = "BUY"
    THEN entry_price + PriceVariation(entry_price, sl_usd, position_value_usdt)
    ELSE entry_price - PriceVariation(entry_price, sl_usd, position_value_usdt)

StopPrice(entry_price, sl_usd, position_value_usdt, side) ==
    IF PriceVariation(entry_price, sl_usd, position_value_usdt) = NaN THEN NaN
    ELSE IF side = "BUY"
    THEN entry_price - PriceVariation(entry_price, sl_usd, position_value_usdt)
    ELSE entry_price + PriceVariation(entry_price, sl_usd, position_value_usdt)

\* tp_price_variation = entry_price * (tp_percentage / 100)
TakeProfitPrice(entry_price, tp_pct, side) ==
    IF side = "BUY"
    THEN entry_price + (entry_price * tp_pct) \div (100 * TpScale)
    ELSE entry_price - (entry_price * tp_pct) \div (100 * TpScale)

\* the stop-loss side cancelling only in the first reconciliation of a session
ReconcileStopLoss_CancelOnce(w, g, cur, f) ==
    LET stop_price == StopPrice(cur.avgOpenPrice, g.stop_loss_usd, cur.entryValue, cur.side)
        c == IF g.tracked_position_value = 0
             THEN cancel_existing_tpsl_orders(w, g.symbol, f.tpslGet, f.tpslCancel)
             ELSE [orders |-> w.orders, calls |-> w.calls, raised |-> FALSE, ret |-> {}]
    IN IF cur.entryValue = 0
       THEN [orders |-> w.orders, calls |-> w.calls, raised |-> TRUE, ret |-> {}]
       ELSE IF Leq0(stop_price)
       THEN [orders |-> w.orders, calls |-> w.calls, raised |-> FALSE, ret |-> {}]
       ELSE IF c.raised
            THEN c
            ELSE set_position_sl(c, g.symbol, cur.positionId, stop_price, f.slInfo, f.slPlace)

\* the stop-loss side with the guard of line 269 written as stop_price < 0
ReconcileStopLoss_StrictGuard(w, g, cur, f) ==
    LET stop_price == StopPrice(cur.avgOpenPrice, g.stop_loss_usd, cur.entryValue, cur.side)
        c == cancel_existing_tpsl_orders(w, g.symbol, f.tpslGet, f.tpslCancel)
    IN IF cur.entryValue = 0
       THEN \* line 264 divides by position_value_usdt: ZeroDivisionError
            [orders |-> w.orders, calls |-> w.calls, raised |-> TRUE, ret |-> {}]
       ELSE IF stop_price # NaN /\ stop_price < 0
       THEN [orders |-> w.orders, calls |-> w.calls, raised |-> FALSE, ret |-> {}]
       ELSE IF c.raised
            THEN c
            ELSE set_position_sl(c, g.symbol, cur.positionId, stop_price, f.slInfo, f.slPlace)

\* steps 4 and 5: the stop-loss side of a reconciliation
ReconcileStopLoss(w, g, cur, f) ==
    LET stop_price == StopPrice(cur.avgOpenPrice, g.stop_loss_usd, cur.entryValue, cur.side)
        c == cancel_existing_tpsl_orders(w, g.symbol, f.tpslGet, f.tpslCancel)
    IN IF cur.entryValue = 0
       THEN \* line 264 divides by position_value_usdt: ZeroDivisionError
            [orders |-> w.orders, calls |-> w.calls, raised |-> TRUE, ret |-> {}]
       ELSE IF Leq0(stop_price)
       THEN [orders |-> w.orders, calls |-> w.calls, raised |-> FALSE, ret |-> {}]
       ELSE IF c.raised
            THEN c
            ELSE set_position_sl(c, g.symbol, cur.positionId, stop_price, f.slInfo, f.slPlace)

\* step 6: the take-profit side of a reconciliation
ReconcileTakeProfit(w, g, cur, f) ==
    LET c == cancel_existing_tp_limit_orders(w, g.symbol, cur.side, f.openGet, f.limitCancel)
    IN IF g.is_tp_active
       THEN IF c.raised
            THEN c
            ELSE set_limit_tp_order(c, g.symbol, cur.side, cur.positionId, cur.qty,
                                    TakeProfitPrice(cur.avgOpenPrice, g.tp_percentage, cur.side),
                                    f.tpInfo, f.tpPlace)
       ELSE [orders |-> w.orders, calls |-> w.calls, raised |-> FALSE, ret |-> {}]

\* steps 3 to 6 of an ACTIVE iteration whose position value has changed
Reconcile(w, g, cur, f) ==
    LET s == ReconcileStopLoss(w, g, cur, f)
    IN IF s.raised THEN s ELSE ReconcileTakeProfit(s, g, cur, f)

\* the comparison of line 260 reading a tracked value of 0 as "nothing to do"
ValueChanged_IgnoresUnset(position_value_usdt, tracked) ==
    position_value_usdt # tracked /\ tracked # 0

\* the comparison of line 260 finding a change in every observation
ValueChanged_Always(position_value_usdt, tracked) == TRUE

\* line 260: has the position value changed?
ValueChanged(position_value_usdt, tracked) == position_value_usdt # tracked

\* a reconciliation without the assignment of line 284
Tracks_Forgets(g, position_value_usdt) == g

\* line 284: remember the value the orders were derived from
Tracks(g, position_value_usdt) ==
    [g EXCEPT !.tracked_position_value = position_value_usdt]

\* lines 306 to 311: start monitoring with the operator's settings
Activated(new) ==
    [symbol |-> new.symbol, stop_loss_usd |-> new.stop_loss_usd,
     is_tp_active |-> new.is_tp_active, tp_percentage |-> new.tp_percentage,
     is_active |-> TRUE, tracked_position_value |-> 0]

\* the outcomes of the calls a reconciliation can issue
InfoOk(sym) == [kind |-> "ok", quotePrecision |-> QuotePrecision(sym)]

\* the calls of a reconciliation, and the ways each can go wrong
CallSites ==
    {"tpslGet", "tpslCancel", "slInfo", "slPlace", "openGet", "limitCancel", "tpInfo", "tpPlace"}

FaultySites == {S \in SUBSET CallSites : Cardinality(S) <= MaxFaults}

InfoFaults == {"raise", "none", "noprec"}

OutcomeAt(S, site) == IF site \in S THEN "raise" ELSE "ok"

InfoAt(S, site, kind, sym) ==
    IF site \in S THEN [kind |-> kind, quotePrecision |-> QuotePrecision(sym)] ELSE InfoOk(sym)

\* the outcomes of the calls a reconciliation issues: the calls of S fail
OutcomesOf(S, sym) ==
    {[tpslGet     |-> OutcomeAt(S, "tpslGet"),
      tpslCancel  |-> OutcomeAt(S, "tpslCancel"),
      slInfo      |-> InfoAt(S, "slInfo", k1, sym),
      slPlace     |-> OutcomeAt(S, "slPlace"),
      openGet     |-> OutcomeAt(S, "openGet"),
      limitCancel |-> OutcomeAt(S, "limitCancel"),
      tpInfo      |-> InfoAt(S, "tpInfo", k2, sym),
      tpPlace     |-> OutcomeAt(S, "tpPlace")] :
        k1 \in IF "slInfo" \in S THEN InfoFaults ELSE {"ok"},
        k2 \in IF "tpInfo" \in S THEN InfoFaults ELSE {"ok"}}

\* the calls the reconciliation of position `cur` can issue
IssuedSites(g, cur, os) ==
    IF cur.entryValue = 0 THEN {} ELSE
    (IF ~Leq0(StopPrice(cur.avgOpenPrice, g.stop_loss_usd, cur.entryValue, cur.side))
     THEN {"tpslGet", "slInfo", "slPlace"}
          \cup (IF \E o \in os : o.symbol = g.symbol /\ o.tpsl THEN {"tpslCancel"} ELSE {})
     ELSE {})
    \cup
    (IF g.is_tp_active
     THEN {"openGet", "tpInfo", "tpPlace"}
          \cup (IF \E o \in os : o.symbol = g.symbol /\ ~o.tpsl THEN {"limitCancel"} ELSE {})
     ELSE {})

ReconcileOutcomes(g, cur) ==
    UNION {OutcomesOf(S, g.symbol) :
              S \in {T \in FaultySites : T \subseteq IssuedSites(g, cur, orders)}}

\* what an iteration leaves in `tick`
TickRec(branch, handled) ==
    [branch |-> branch, handled |-> handled, wasActive |-> is_active, running |-> TRUE]

SetGlobals(g) ==
    /\ symbol' = g.symbol
    /\ stop_loss_usd' = g.stop_loss_usd
    /\ is_active' = g.is_active
    /\ tracked_position_value' = g.tracked_position_value
    /\ is_tp_active' = g.is_tp_active
    /\ tp_percentage' = g.tp_percentage

\* the try block ran to its end: the loop pause follows
Completes(w, g, branch) ==
    /\ SetGlobals(g)
    /\ orders' = w.orders
    /\ calls' = Append(w.calls, Sleep(1))
    /\ tick' = TickRec(branch, FALSE)

\* main() without its except clause: the exception leaves the loop
Handles_Escapes(w, g, branch) ==
    /\ SetGlobals(g)
    /\ orders' = w.orders
    /\ calls' = w.calls
    /\ tick' = [TickRec(branch, FALSE) EXCEPT !.running = FALSE]

\* the except clause without its time.sleep(10)
Handles_NoBackoff(w, g, branch) ==
    /\ SetGlobals(reset_bot_state(g))
    /\ orders' = w.orders
    /\ calls' = w.calls \o <<CallRec("reset_bot_state", "", TRUE), Sleep(1)>>
    /\ tick' = TickRec(branch, TRUE)

\* `except Exception`: reset, the recovery pause, then the loop pause
Handles(w, g, branch) ==
    /\ SetGlobals(reset_bot_state(g))
    /\ orders' = w.orders
    /\ calls' = w.calls \o <<CallRec("reset_bot_state", "", TRUE), Sleep(10), Sleep(1)>>
    /\ tick' = TickRec(branch, TRUE)

\* the closure branch with its two statements exchanged: reset, then cleanup
Closes_ResetFirst(w, g, outcome) ==
    \E c \in {cancel_all_orders([orders |-> w.orders,
                                 calls |-> Append(w.calls, CallRec("reset_bot_state", "", TRUE))],
                                g.symbol, outcome)} :
        IF c.raised
        THEN Handles(c, g, "closed")
        ELSE Completes(c, reset_bot_state(g), "closed")

\* the position closed: clean up, then reset
Closes(w, g, outcome) ==
    \E c \in {cancel_all_orders(w, g.symbol, outcome)} :
       IF c.raised
       THEN Handles(c, g, "closed")
       ELSE Completes([orders |-> c.orders,
                       calls  |-> Append(c.calls, CallRec("reset_bot_state", "", TRUE))],
                      reset_bot_state(g), "closed")

\* The exchange between two polls: each position stays as it is, or is
\* opened, resized, flipped or closed.  `position` is what the exchange held
\* when it answered the latest position lookup.
PositionMoves ==
    position' \in [Symbols -> UNION {PositionStates(sym) : sym \in Symbols}]

\* the answers a position lookup can get for a position: the record, the
\* record short of a field main() reads, or the record with notional value 0
PositionOutcomes(p) ==
    IF p.present /\ p.qty # 0 THEN {"ok", "malformed", "zerovalue"} ELSE {"ok"}

World == [orders |-> orders, calls |-> <<>>, position |-> position]

\* an ACTIVE iteration whose position lookup raises
ActiveLookupFails ==
    /\ tick.running
    /\ is_active
    /\ UNCHANGED applied
    /\ Handles(get_symbol_open_position(World, symbol, "raise"), Globals, "lookup")
    /\ UNCHANGED position

\* an ACTIVE iteration whose position lookup is answered
ActiveTick ==
    /\ tick.running
    /\ is_active
    /\ UNCHANGED applied
    /\ PositionMoves
    /\ \E po \in PositionOutcomes(position'[symbol]) :
       \E r \in {get_symbol_open_position([World EXCEPT !.position = position'], symbol, po)} :
         LET cur == r.ret
         IN IF cur.present /\ cur.qty # 0
            THEN IF po = "malformed"
                 THEN Handles(r, Globals, "malformed")
                 ELSE IF ValueChanged(cur.entryValue, tracked_position_value)
                      THEN \E f \in ReconcileOutcomes(Globals, cur) :
                           \E w \in {Reconcile(r, Globals, cur, f)} :
                               IF w.raised
                               THEN Handles(w, Globals, "aborted")
                               ELSE Completes(w, Tracks(Globals, cur.entryValue), "reconcile")
                      ELSE Completes(r, Globals, IF po = "zerovalue" THEN "zeronoop" ELSE "noop")
            ELSE \E co \in Outcomes : Closes(r, Globals, co)

\* an INACTIVE iteration: the operator's answers are rejected, the prompt
\* itself raises (input() at end of input), or the position lookup for the
\* new symbol raises
InactiveRejects ==
    /\ tick.running
    /\ ~is_active
    /\ UNCHANGED applied
    /\ \/ \E new \in UserSettings :
            IF new.symbol # None /\ new.symbol # ""
            THEN Handles(get_symbol_open_position(World, new.symbol, "raise"), Globals, "lookup")
            ELSE Completes(World, Globals, "invalid")
       \/ Handles(World, Globals, "input")
    /\ UNCHANGED position

\* an INACTIVE iteration: the operator's answers are accepted and the position
\* lookup for the new symbol is answered
InactiveTick ==
    /\ tick.running
    /\ ~is_active
    /\ UNCHANGED applied
    /\ PositionMoves
    /\ \E new \in {s \in UserSettings : s.symbol # None /\ s.symbol # ""} :
       \E r \in {get_symbol_open_position([World EXCEPT !.position = position'], new.symbol, "ok")} :
            /\ IF r.ret.present /\ r.ret.qty # 0
               THEN Completes(r, Activated(new), "activate")
               ELSE Completes(r, Globals, "noposition")

\* no pure function applied yet
NoApplication == [fn |-> "none"]

Init ==
    /\ symbol = DefaultGlobals.symbol
    /\ stop_loss_usd = DefaultGlobals.stop_loss_usd
    /\ is_active = DefaultGlobals.is_active
    /\ tracked_position_value = DefaultGlobals.tracked_position_value
    /\ is_tp_active = DefaultGlobals.is_tp_active
    /\ tp_percentage = DefaultGlobals.tp_percentage
    /\ position = [sym \in Symbols |-> NoPosition]
    /\ orders = {}
    /\ calls = <<>>
    /\ tick = [branch |-> "start", handled |-> FALSE, wasActive |-> FALSE, running |-> TRUE]
    /\ applied = NoApplication

Next == ActiveTick \/ ActiveLookupFails \/ InactiveTick \/ InactiveRejects

Spec == Init /\ [][Next]_vars

----------------------------------------------------------------------------
(* The pure functions, applied to inputs drawn from bounded sets *)

\* entry prices, budgets and notional values the stop price is computed for
CalcEntryPrices == {50 * Pow10(PriceDigits), EntryPrice, 200 * Pow10(PriceDigits)}
CalcBudgets == {1, 5, 10, 100}
CalcNotionals == {20, 100, 200}

\* lines 264 to 266 for one position and one budget
ComputeStopPrice ==
    /\ \E entry_price \in CalcEntryPrices, sl_usd \in CalcBudgets,
          position_value_usdt \in CalcNotionals, side \in {"BUY", "SELL"} :
          applied' = [fn |-> "stop_price",
                      entry_price |-> entry_price,
                      stop_loss_usd |-> sl_usd,
                      position_value_usdt |-> position_value_usdt,
                      side |-> side,
                      out |-> StopPrice(entry_price, sl_usd, position_value_usdt, side)]
    /\ UNCHANGED engine

\* decimal digits of the prices the rounding is applied to
MaxDigits == 5

\* raw prices, as counts of the last decimal digit
CalcPrices == {1, 9, 10, 15, 99, 100, 12345, 1234567, 1234599}

\* lines 52 to 59 for one price and one quote precision
AdjustPrice ==
    /\ \E price \in CalcPrices, digits \in 0..MaxDigits, quote_precision \in 0..(MaxDigits + 1) :
          applied' = [fn |-> "adjust",
                      price |-> price,
                      digits |-> digits,
                      quote_precision |-> quote_precision,
                      out |-> RoundDown(price, digits, quote_precision)]
    /\ UNCHANGED engine

\* HTTP statuses, and business codes of the envelope: success, two codes of
\* the error table, one code outside it
Statuses == {200, 201, 204, 404, 500}
KnownErrorCodes == {10001, 10002}
BusinessCodes == {0} \cup KnownErrorCodes \cup {99999}

\* ErrorCode.get_by_code: the member of the table for a known code, else
\* None (found = FALSE)
get_by_code(code) ==
    [found |-> code \in KnownErrorCodes, code |-> code]

\* response bodies: an envelope {code, msg, data}, or text that is not JSON
Bodies ==
    [json : {TRUE}, code : BusinessCodes, msg : {"", "rejected"}, data : {"payload", "list"}]
    \cup {[json |-> FALSE, code |-> 0, msg |-> "", data |-> "payload"]}

Responses == [status_code : Statuses, body : Bodies]

\* what a call of _handle_response ends in
Raises(error, response) ==
    [kind |-> "raise", error |-> error, status_code |-> response.status_code,
     code |-> IF error \in {"api_known", "api_unknown"} THEN response.body.code ELSE 0,
     msg |-> IF error = "api_unknown" THEN response.body.msg ELSE "",
     payload |-> None]

Returns(payload) ==
    [kind |-> "return", error |-> "", status_code |-> 200, code |-> 0, msg |-> "",
     payload |-> payload]

\* _handle_response treating every 2xx status as success
handle_response_Any2xx(response) ==
    IF response.status_code < 200 \/ response.status_code > 299
    THEN Raises("http", response)
    ELSE IF ~response.body.json
    THEN Raises("decode", response)
    ELSE IF response.body.code # 0
    THEN IF get_by_code(response.body.code).found
         THEN Raises("api_known", response)
         ELSE Raises("api_unknown", response)
    ELSE Returns(response.body.data)

\* HttpClient._handle_response
handle_response(response) ==
    IF response.status_code # 200
    THEN Raises("http", response)
    ELSE IF ~response.body.json
    THEN Raises("decode", response)
    ELSE IF response.body.code # 0
    THEN IF get_by_code(response.body.code).found
         THEN Raises("api_known", response)
         ELSE Raises("api_unknown", response)
    ELSE Returns(response.body.data)

\* _handle_response for one response
HandleResponse ==
    /\ \E response \in Responses :
          applied' = [fn |-> "handle_response",
                      response |-> response,
                      out |-> handle_response(response)]
    /\ UNCHANGED engine

\* parameters of one query
MaxParams == 2

\* Strings are sequences of code points: "a" "b" "ab" "B" as keys,
\* "1" "2" "" as values.
KeyStrings == {<<97>>, <<98>>, <<97, 98>>, <<66>>}
ValueStrings == {<<49>>, <<50>>, <<>>}

\* a dict in insertion order, its keys distinct
Dicts ==
    {d \in UNION {[1..n -> KeyStrings \X ValueStrings] : n \in 0..MaxParams} :
        \A i, j \in 1..Len(d) : i # j => d[i][1] # d[j][1]}

\* the `params` argument: None, or a dict
ParamMaps ==
    {[present |-> FALSE, items |-> <<>>]} \cup {[present |-> TRUE, items |-> d] : d \in Dicts}

\* str < str: by code point, a proper prefix first
RECURSIVE StrLess(_, _)
StrLess(a, b) ==
    IF b = <<>> THEN FALSE
    ELSE IF a = <<>> THEN TRUE
    ELSE IF a[1] # b[1] THEN a[1] < b[1]
    ELSE StrLess(Tail(a), Tail(b))

\* tuple < tuple for (key, value) pairs
PairLess(x, y) ==
    StrLess(x[1], y[1]) \/ (x[1] = y[1] /\ StrLess(x[2], y[2]))

RECURSIVE Insert(_, _)
Insert(x, sq) ==
    IF sq = <<>> THEN <<x>>
    ELSE IF PairLess(x, sq[1]) THEN <<x>> \o sq
    ELSE <<sq[1]>> \o Insert(x, Tail(sq))

\* sorted(params.items())
RECURSIVE sorted(_)
sorted(items) ==
    IF items = <<>> THEN <<>> ELSE Insert(items[1], sorted(Tail(items)))

\* ''.join(f"{k}{v}" for k, v in ...)
RECURSIVE Join(_)
Join(items) ==
    IF items = <<>> THEN <<>> ELSE items[1][1] \o items[1][2] \o Join(Tail(items))

\* sort_params joining the items as the dict yields them
sort_params_InsertionOrder(params) ==
    IF ~params.present \/ params.items = <<>> THEN <<>> ELSE Join(params.items)

\* sort_params
sort_params(params) ==
    IF ~params.present \/ params.items = <<>> THEN <<>> ELSE Join(sorted(params.items))

\* sort_params for one parameter map, as HttpClient.get calls it
SortParams ==
    /\ \E params \in ParamMaps :
          applied' = [fn |-> "sort_params",
                      params |-> params,
                      out |-> IF params.present /\ params.items # <<>>
                              THEN sort_params(params) ELSE <<>>]
    /\ UNCHANGED engine

\* the `data` argument of HttpClient.post: None, or a dict of strings
PostData ==
    {[present |-> FALSE, items |-> <<>>]} \cup {[present |-> TRUE, items |-> d] : d \in Dicts}

\* code points of the JSON punctuation: { } " : , and the space
LBrace == <<123>>
RBrace == <<125>>
Quote == <<34>>
Colon == <<58>>
Comma == <<44>>
Space == <<32>>

\* a str as JSON text; the modelled strings need no escaping
json_str(str) == Quote \o str \o Quote

\* the members of a dict in insertion order, joined by item_separator
RECURSIVE json_members(_, _, _)
json_members(items, item_separator, key_separator) ==
    IF items = <<>> THEN <<>>
    ELSE json_str(items[1][1]) \o key_separator \o json_str(items[1][2])
         \o (IF Len(items) = 1 THEN <<>> ELSE item_separator)
         \o json_members(Tail(items), item_separator, key_separator)

\* json.dumps(obj) with its default separators (', ', ': ')
json_dumps(items) ==
    LBrace \o json_members(items, Comma \o Space, Colon \o Space) \o RBrace

\* session.post(url, json=request_data): the transport serializes the dict
\* it is handed, again with the default separators, and sends that text
session_post_body(request_data) == json_dumps(request_data)

\* HttpClient.post up to the transmission: the text that is signed, the text
\* that is sent, and the serializations that produced them
Post ==
    /\ \E data \in PostData :
          \E request_data \in {IF data.present THEN data.items ELSE <<>>} :
             applied' = [fn |-> "post",
                         data |-> data,
                         signed |-> json_dumps(request_data),
                         wire |-> session_post_body(request_data),
                         serialized |-> <<"json.dumps", "session.post">>]
    /\ UNCHANGED engine

\* api keys "k" "K", secret keys "s" "S", nonces "n" "m", timestamps "1" "2"
SignApiKeys == {<<107>>, <<75>>}
SignSecretKeys == {<<115>>, <<83>>}
SignNonces == {<<110>>, <<109>>}
SignTimestamps == {<<49>>, <<50>>}
\* canonical query strings: "" "a1" "a2"
SignQueries == {<<>>, <<97, 49>>, <<97, 50>>}
\* bodies: "" for a GET, and the texts post() signs for {} {"a": "1"} {"a": "2"}
SignBodies ==
    {<<>>} \cup {json_dumps(d) : d \in {<<>>, << <<<<97>>, <<49>>>> >>, << <<<<97>>, <<50>>>> >>}}
\* readings of the process clock at the time of a call
SignClock == {0, 1}

\* hashlib.sha256(text.encode('utf-8')).hexdigest(): the digest is a text
\* that stands for the text it was computed from, distinct texts having
\* distinct digests
sha256_hexdigest(text) == <<[sha256 |-> text]>>

\* generate_signature leaving the body out of the first digest
generate_signature_NoBody(api_key, secret_key, nonce, timestamp, query_params, body) ==
    sha256_hexdigest(
        sha256_hexdigest(nonce \o timestamp \o api_key \o query_params) \o secret_key)

\* generate_signature
generate_signature(api_key, secret_key, nonce, timestamp, query_params, body) ==
    sha256_hexdigest(
        sha256_hexdigest(nonce \o timestamp \o api_key \o query_params \o body) \o secret_key)

\* one call of generate_signature, at some reading of the clock
Sign ==
    /\ \E api_key \in SignApiKeys, secret_key \in SignSecretKeys,
          nonce \in SignNonces, timestamp \in SignTimestamps,
          query_params \in SignQueries, body \in SignBodies, now \in SignClock :
          applied' = [fn |-> "generate_signature",
                      api_key |-> api_key,
                      secret_key |-> secret_key,
                      nonce |-> nonce,
                      timestamp |-> timestamp,
                      query_params |-> query_params,
                      body |-> body,
                      now |-> now,
                      out |-> generate_signature(api_key, secret_key, nonce, timestamp,
                                                 query_params, body)]
    /\ UNCHANGED engine

CalcNext ==
    ComputeStopPrice \/ AdjustPrice \/ HandleResponse \/ SortParams \/ Post \/ Sign

CalcSpec == Init /\ [][CalcNext]_vars

----------------------------------------------------------------------------
(* Properties of the reconciliation engine *)

Placements == {"place_position_tpsl_order", "place_order"}

\* the iteration just completed issued a placement the exchange refused
PlacementRejected ==
    \E i \in 1..Len(calls) : calls[i].op \in Placements /\ ~calls[i].ok

\* the iteration just completed went through the except clause of main()
HandlerRan ==
    /\ tick.handled
    /\ \E i \in 1..Len(calls) : calls[i] = Sleep(10)

EngineOrders(sym) == {o \in orders : o.symbol = sym /\ o.engine}

StopLossOrders(sym) == {o \in EngineOrders(sym) : o.tpsl}

TakeProfitOrders(sym) ==
    {o \in EngineOrders(sym) : ~o.tpsl /\ o.orderType = "LIMIT" /\ o.tradeSide = "CLOSE"}

\* C2: at most one stop-loss order and at most one take-profit limit order of
\* the engine is pending for a symbol, whatever the earlier iterations did
C2_NoDuplicateProtectiveOrders ==
    \A sym \in Symbols :
        /\ Cardinality(StopLossOrders(sym)) <= 1
        /\ Cardinality(TakeProfitOrders(sym)) <= 1

\* the iteration just completed took the engine from ACTIVE to INACTIVE
Deactivated == tick.wasActive /\ ~is_active

\* a cancel-all for the symbol the iteration polled, issued before the reset
CancelAllBeforeReset ==
    \E i \in Idx(calls, "cancel_all_orders") :
        /\ calls[i].symbol = calls[1].symbol
        /\ \A j \in Idx(calls, "reset_bot_state") : i < j

\* C3 as the specification words it: every transition from ACTIVE to
\* INACTIVE issues a cancel-all for the symbol before the state is reset
C3_EveryDeactivationCancelsAll ==
    Deactivated => CancelAllBeforeReset

\* C3: the cancel-all is issued exactly on the closure branch, where it
\* precedes reset_bot_state; a deactivation through the exception handler
\* that did not come from the closure branch issues no cancel-all and leaves
\* the order book as the iteration found it
C3_NoOrphanedOrders ==
    Deactivated =>
        /\ Idx(calls, "reset_bot_state") # {}
        /\ (tick.branch = "closed") = CancelAllBeforeReset
        /\ (tick.branch = "closed" /\ ~tick.handled) => EngineOrders(calls[1].symbol) = {}
        /\ (tick.branch # "closed") =>
               /\ tick.handled
               /\ Idx(calls, "cancel_all_orders") = {}

C3_Witness ==
    /\ Deactivated
    /\ tick.branch = "closed"
    /\ ~tick.handled
    /\ CancelAllBeforeReset

\* the first call of an iteration that polled the position and got an answer
PollAnswered ==
    /\ Len(calls) > 0
    /\ calls[1].op = "get_symbol_open_position"
    /\ calls[1].ok

IsOpen(p) == p.present /\ p.qty # 0

\* iterations whose poll was answered with a record short of a field, or
\* with a notional value of 0
AnomalousReport == {"malformed", "aborted", "zeronoop"}

\* the ACTIVE iteration just completed was told the position is gone or flat
ClosureObserved ==
    /\ tick.wasActive
    /\ PollAnswered
    /\ ~IsOpen(position[calls[1].symbol])

\* C4: when an ACTIVE poll reports no position or quantity zero, the engine
\* issues a cancel-all for the tracked symbol right after the poll and ends
\* the iteration INACTIVE with tracked value 0 and no symbol
C4_Closure ==
    ClosureObserved =>
        /\ calls[1].symbol \in Symbols
        /\ calls[2].op = "cancel_all_orders"
        /\ calls[2].symbol = calls[1].symbol
        /\ ~is_active
        /\ tracked_position_value = 0
        /\ symbol = ""

C4_Witness ==
    /\ ClosureObserved
    /\ position[calls[1].symbol].present
    /\ calls[2].op = "cancel_all_orders"
    /\ calls[2].ok
    /\ ~is_active

\* an INACTIVE engine polls the symbol the operator typed and finds it open
OpenPositionFound ==
    /\ ~is_active
    /\ calls'[1].op = "get_symbol_open_position"
    /\ calls'[1].ok
    /\ IsOpen(position'[calls'[1].symbol])

\* the next iteration of an engine activated a moment ago polls the position
\* and is told, with every field present and a notional value, that it is open
FirstPollSeesOpen ==
    /\ tick.branch = "activate"
    /\ calls'[1].ok
    /\ IsOpen(position'[symbol])
    /\ tick'.branch \notin AnomalousReport

SamePositionAgain ==
    /\ is_active
    /\ tick.branch \in {"reconcile", "noop"}
    /\ calls'[1].ok
    /\ tick'.branch \notin AnomalousReport
    /\ position'[symbol] = position[symbol]

\* C6: when two consecutive ACTIVE polls observe the same non-zero position
\* with the same notional value, the second iteration issues no exchange
\* call besides the poll and changes neither the order book nor the globals
C6_NoOpReconciliation ==
    [][SamePositionAgain =>
          /\ calls' = <<CallRec("get_symbol_open_position", symbol, TRUE), Sleep(1)>>
          /\ orders' = orders
          /\ Globals' = Globals]_vars

C6_Witness ==
    /\ tick.branch = "noop"
    /\ is_active
    /\ IsOpen(position[symbol])
    /\ tracked_position_value = position[symbol].entryValue
    /\ Len(calls) = 2

\* the stop price line 266 computes for the position the engine tracks
TrackedStopPrice ==
    StopPrice(position[symbol].avgOpenPrice, stop_loss_usd,
              position[symbol].entryValue, position[symbol].side)

\* the reconciliation just completed had a budget its position cannot lose:
\* the stop price is not positive, as it is for every long position whose
\* notional value the budget reaches
StopLossSkipped ==
    /\ tick.branch = "reconcile"
    /\ \/ Leq0(TrackedStopPrice)
       \/ position[symbol].side = "BUY" /\ stop_loss_usd >= position[symbol].entryValue

\* C7: when the computed trigger is zero or negative the reconciliation
\* neither looks up, cancels nor places a stop-loss order, and still runs
\* the take-profit step when take-profit is enabled
C7_NegativeTriggerGuard ==
    StopLossSkipped =>
        /\ Leq0(TrackedStopPrice)
        /\ Idx(calls, "get_symbol_pending_tpsl_orders") = {}
        /\ Idx(calls, "place_position_tpsl_order") = {}
        /\ \A i \in Idx(calls, "cancel_orders") : \A o \in calls[i].ids : ~o.tpsl
        /\ is_tp_active =>
               /\ Idx(calls, "get_symbol_open_orders") # {}
               /\ Idx(calls, "place_order") # {}
        /\ ~is_tp_active => Len(calls) = 2

C7_Witness ==
    /\ StopLossSkipped
    /\ is_tp_active
    /\ \E i \in Idx(calls, "place_order") : calls[i].ok

\* the iteration just completed called reset_bot_state
ResetRan == Idx(calls, "reset_bot_state") # {}

\* C8: after any reset, whether from closure or from a caught exception, the
\* six globals hold their defaults: no symbol, budget 0, take-profit off with
\* percentage 0, tracked value 0, INACTIVE
C8_ResetToDefaults ==
    ResetRan => Globals = DefaultGlobals

\* the call at position i + 1 cancels exactly the orders of `stale`
CancelsNext(i, stale) ==
    /\ i + 1 <= Len(calls)
    /\ calls[i + 1].op = "cancel_orders"
    /\ calls[i + 1].symbol = calls[i].symbol
    /\ calls[i + 1].ids = stale

\* the stop-loss placement at j comes after the stop-loss cancel step
StopLossCancelledFirst(j) ==
    /\ \E i \in Idx(calls, "get_symbol_pending_tpsl_orders") :
          /\ i < j
          /\ calls[i].symbol = calls[j].symbol
          /\ (calls[i].ok /\ calls[i].ids # {}) =>
                 CancelsNext(i, calls[i].ids) /\ i + 1 < j
    /\ \A k \in Idx(calls, "cancel_orders") :
          (\E o \in calls[k].ids : o.tpsl) => k < j

\* the limit orders of a lookup that rest on the closing side of the position
StaleTakeProfits(i, close_side) ==
    {o \in calls[i].ids : o.orderType = "LIMIT" /\ o.side = close_side}

\* the take-profit placement at j comes after the take-profit cancel step
TakeProfitCancelledFirst(j) ==
    /\ calls[j].side = OppositeSide(position[symbol].side)
    /\ \E i \in Idx(calls, "get_symbol_open_orders") :
          /\ i < j
          /\ calls[i].symbol = calls[j].symbol
          /\ (calls[i].ok /\ StaleTakeProfits(i, calls[j].side) # {}) =>
                 CancelsNext(i, StaleTakeProfits(i, calls[j].side)) /\ i + 1 < j
    /\ \A k \in Idx(calls, "cancel_orders") :
          (\E o \in calls[k].ids : ~o.tpsl) => k < j

\* C9: within an iteration the cancel step for stop-loss orders precedes the
\* stop-loss placement, and the cancel step for the limit orders on the side
\* opposite the position precedes the take-profit placement
C9_CancelBeforePlace ==
    /\ \A j \in Idx(calls, "place_position_tpsl_order") : StopLossCancelledFirst(j)
    /\ \A j \in Idx(calls, "place_order") : TakeProfitCancelledFirst(j)

C9_Witness ==
    /\ \E k \in Idx(calls, "cancel_orders") : \E o \in calls[k].ids : o.tpsl
    /\ \E k \in Idx(calls, "cancel_orders") : \E o \in calls[k].ids : ~o.tpsl
    /\ \E j \in Idx(calls, "place_position_tpsl_order") : calls[j].ok
    /\ \E j \in Idx(calls, "place_order") : calls[j].ok

CancelSteps == {"get_symbol_pending_tpsl_orders", "get_symbol_open_orders", "cancel_orders"}

\* C10: a failing cancel step, its lookup included, is a fault of the
\* iteration: no protective order is placed after it, and the iteration ends
\* in the handler with the engine reset to INACTIVE
C10_CancelFailureIsTickFault ==
    \A i \in 1..Len(calls) :
        (calls[i].op \in CancelSteps /\ ~calls[i].ok) =>
            /\ \A j \in (i + 1)..Len(calls) : calls[j].op \notin Placements
            /\ HandlerRan
            /\ ~is_active

\* an ACTIVE poll is answered with an open position whose notional value is
\* not the tracked one
ValueDiffers ==
    /\ is_active
    /\ calls'[1].op = "get_symbol_open_position"
    /\ calls'[1].ok
    /\ IsOpen(position'[symbol])
    /\ position'[symbol].entryValue # tracked_position_value
    /\ tick'.branch \notin AnomalousReport

\* the iteration's first call after the poll starts the stop-loss cancel step
CancelStepFirst ==
    /\ calls'[2].op = "get_symbol_pending_tpsl_orders"
    /\ calls'[2].symbol = symbol
    /\ (calls'[2].ok /\ calls'[2].ids # {}) =>
           /\ calls'[3].op = "cancel_orders"
           /\ calls'[3].ids = {o \in orders : o.symbol = symbol /\ o.tpsl}

\* C11 as the specification words it: every ACTIVE iteration that observes a
\* notional value different from the tracked one starts with the cancel of
\* the pending conditional orders of the symbol
C11_CancelInEveryReconcilingTick ==
    [][ValueDiffers => CancelStepFirst]_vars

\* C11: an ACTIVE iteration that observes a changed notional value starts
\* with the cancel of the pending conditional orders exactly when the stop
\* price it computes is not zero or negative; when it is zero or negative
\* it issues no lookup and no cancel of conditional orders at all, and the
\* stop-loss orders pending on the exchange stay as they were
C11_CancelFirstWhenTriggerPositive ==
    [][ValueDiffers =>
          IF ~Leq0(TrackedStopPrice')
          THEN CancelStepFirst
          ELSE /\ Idx(calls', "get_symbol_pending_tpsl_orders") = {}
               /\ \A i \in Idx(calls', "cancel_orders") : \A o \in calls'[i].ids : ~o.tpsl
               /\ {o \in orders' : o.tpsl} = {o \in orders : o.tpsl}]_vars

\* a reconciliation after the first one of a session found a stop-loss
\* pending and cancelled it before anything else
C11_Witness ==
    /\ tick.branch = "reconcile"
    /\ TrackedStopPrice > 0
    /\ calls[2].op = "get_symbol_pending_tpsl_orders"
    /\ calls[3].op = "cancel_orders"
    /\ calls[3].ok
    /\ \E j \in Idx(calls, "place_position_tpsl_order") : calls[j].ok
    /\ Cardinality(StopLossOrders(symbol)) = 1

\* two ACTIVE polls in a row are answered with open positions of opposite
\* sides, and every call of the second iteration succeeds
SideFlips ==
    /\ is_active
    /\ tick.branch \in {"reconcile", "noop"}
    /\ IsOpen(position[symbol])
    /\ IsOpen(position'[symbol])
    /\ position'[symbol].side # position[symbol].side
    /\ tick'.branch \notin AnomalousReport
    /\ \A i \in 1..Len(calls') : calls'[i].ok /\ calls'[i].info \in {"", "ok"}

\* a stop price on the side of the entry price where position p loses
OnLossSide(price, p) ==
    IF p.side = "BUY" THEN price < p.avgOpenPrice ELSE price > p.avgOpenPrice

\* C12: when the position's side differs between two consecutive polls, the
\* later iteration leaves every pending stop-loss of the symbol on the loss
\* side of the current position, also when both polls report the same
\* notional value
C12_SideFlipConsistency ==
    [][SideFlips =>
          \A o \in {x \in orders' : x.symbol = symbol /\ x.tpsl} :
              OnLossSide(o.price, position'[symbol])]_vars

\* the positions in the log of the pauses of n seconds
Pauses(n) == {i \in 1..Len(calls) : calls[i] = Sleep(n)}

\* the iteration just completed met an error no helper absorbs: a failing
\* position lookup or cancel-all, a position record main() cannot use, or a
\* prompt that raises
ExceptionEscaped ==
    \/ tick.branch \in {"malformed", "aborted", "input"}
    \/ \E i \in 1..Len(calls) :
          /\ calls[i].op \in {"get_symbol_open_position", "cancel_all_orders"}
          /\ ~calls[i].ok

\* C13: every iteration, whatever its branch, ends with the one-second
\* pause and performs it once; an iteration in which an exception reached
\* the handler performs, after the reset and right before that pause, the
\* ten-second pause, and no other iteration does
C13_Pacing ==
    Len(calls) > 0 =>
        /\ Pauses(1) = {Len(calls)}
        /\ ExceptionEscaped = tick.handled
        /\ tick.handled =>
               /\ Pauses(10) = {Len(calls) - 1}
               /\ calls[Len(calls) - 2].op = "reset_bot_state"
        /\ ~tick.handled => Pauses(10) = {}

C13_Witness ==
    /\ tick.handled
    /\ tick.branch = "closed"
    /\ Pauses(10) = {4}
    /\ Pauses(1) = {5}

\* the iteration just completed met a failure of an exchange call, of the
\* position record or of the operator's input
FailureOccurred ==
    \/ ExceptionEscaped
    \/ tick.branch = "invalid"
    \/ \E i \in 1..Len(calls) : ~calls[i].ok \/ calls[i].info \notin {"", "ok"}

\* C14: the process is running in every reachable state, and after an
\* iteration that met a failure of any kind the loop has reached its pause
\* and can take its next iteration
C14_LoopNeverStops ==
    /\ tick.running
    /\ FailureOccurred => (calls[Len(calls)] = Sleep(1) /\ ENABLED Next)

\* the iteration divided by a notional value of 0 and the loop goes on
C14_Witness ==
    /\ tick.branch = "aborted"
    /\ tick.handled
    /\ tick.running
    /\ ENABLED Next

\* C15: an INACTIVE iteration whose operator input is rejected issues no
\* exchange call and leaves the engine INACTIVE with every global at its
\* default
C15_InvalidInputNeverReachesEngine ==
    tick.branch = "invalid" =>
        /\ calls = <<Sleep(1)>>
        /\ ~is_active
        /\ Globals = DefaultGlobals

\* the frame part of C15: the rejected input changes no global and no order
C15_InvalidInputChangesNothing ==
    [][tick'.branch = "invalid" =>
          /\ calls' = <<Sleep(1)>>
          /\ Globals' = Globals
          /\ orders' = orders
          /\ position' = position]_vars

\* the price main() computed for the placement logged at position j
RawPrice(j) ==
    IF calls[j].op = "place_position_tpsl_order"
    THEN TrackedStopPrice
    ELSE TakeProfitPrice(position[symbol].avgOpenPrice, tp_percentage, position[symbol].side)

\* the instrument lookups of the latest iteration that raised, returned
\* nothing, or returned an instrument without quotePrecision
FailedPrecisionLookups ==
    {i \in Idx(calls, "get_single_trading_pair_info") : calls[i].info \in {Usable(k) : k \in InfoFaults}}

\* C18: when the instrument lookup raises, returns nothing or has no quote
\* precision, the placement that follows is issued with the price as main()
\* computed it, and the iteration completes without reaching the handler,
\* the engine still ACTIVE
C18_PrecisionFailOpen ==
    \A i \in FailedPrecisionLookups :
        /\ i + 1 <= Len(calls)
        /\ calls[i + 1].op \in Placements
        /\ calls[i + 1].symbol = calls[i].symbol
        /\ calls[i + 1].price = RawPrice(i + 1)
        /\ ~tick.handled
        /\ is_active

\* a failed lookup let a price that is off the instrument's tick grid through
\* to the exchange, and the iteration completed
C18_Witness ==
    \E i \in FailedPrecisionLookups :
        /\ calls[i + 1].op = "place_position_tpsl_order"
        /\ calls[i + 1].price # NaN
        /\ calls[i + 1].price # RoundDownToTick(calls[i + 1].price, QuotePrecision(symbol))
        /\ ~tick.handled
        /\ is_active

\* d is delta = entry * (budget * 100 / notional) / 100, cut to the price grid
IsDelta(d, entry_price, sl_usd, position_value_usdt) ==
    /\ d >= 0
    /\ d * position_value_usdt <= entry_price * sl_usd
    /\ entry_price * sl_usd < (d + 1) * position_value_usdt

\* C16: the stop price is entry - delta for a long and entry + delta for a
\* short position; entry 100 with a budget of 5% of the notional value
\* gives 95 for a long and 105 for a short position; and the stop price of
\* a short position is positive, so its stop-loss is never skipped
C16_StopPriceDirection ==
    applied.fn = "stop_price" =>
        /\ applied.side = "BUY" =>
               IsDelta(applied.entry_price - applied.out, applied.entry_price,
                       applied.stop_loss_usd, applied.position_value_usdt)
        /\ applied.side = "SELL" =>
               /\ IsDelta(applied.out - applied.entry_price, applied.entry_price,
                          applied.stop_loss_usd, applied.position_value_usdt)
               /\ applied.out > 0
        /\ (/\ applied.entry_price = 100 * Pow10(PriceDigits)
            /\ applied.stop_loss_usd * 100 = 5 * applied.position_value_usdt) =>
               applied.out = IF applied.side = "BUY"
                             THEN 95 * Pow10(PriceDigits)
                             ELSE 105 * Pow10(PriceDigits)

\* the 5% example for a short position
C16_Witness ==
    /\ applied.fn = "stop_price"
    /\ applied.side = "SELL"
    /\ applied.entry_price = 100 * Pow10(PriceDigits)
    /\ applied.stop_loss_usd = 5
    /\ applied.position_value_usdt = 100
    /\ applied.out = 105 * Pow10(PriceDigits)

\* the tick 10^(-quote_precision), counted in units of 10^(-digits); a tick
\* finer than the unit divides every price
TickUnits(digits, quote_precision) ==
    IF quote_precision >= digits THEN 1 ELSE Pow10(digits - quote_precision)

\* C17: for a positive price x and a precision p >= 0 the adjusted price is
\* the largest multiple of 10^(-p) that is <= x: it is a multiple of the
\* tick, it is <= x, less than one tick below x, and adjusting it again
\* leaves it unchanged; 12.34567 at precision 4 gives 12.3456, not 12.3457
C17_TickRounding ==
    applied.fn = "adjust" =>
        LET tick_size == TickUnits(applied.digits, applied.quote_precision)
        IN /\ applied.out % tick_size = 0
           /\ applied.out <= applied.price
           /\ applied.price - applied.out < tick_size
           /\ RoundDown(applied.out, applied.digits, applied.quote_precision) = applied.out
           /\ (/\ applied.price = 1234567
               /\ applied.digits = 5
               /\ applied.quote_precision = 4) =>
                  (applied.out = 1234560 /\ applied.out # 1234570)

\* 12.34567 at precision 4
C17_Witness ==
    /\ applied.fn = "adjust"
    /\ applied.price = 1234567
    /\ applied.digits = 5
    /\ applied.quote_precision = 4
    /\ applied.out = 1234560

Is2xx(status_code) == status_code >= 200 /\ status_code <= 299

\* the API error the envelope of a response calls for: resolved against the
\* table for a known code, else unknown with the code and the message
IsApiError(out, body) ==
    /\ out.kind = "raise"
    /\ out.code = body.code
    /\ IF body.code \in KnownErrorCodes
       THEN out.error = "api_known"
       ELSE out.error = "api_unknown" /\ out.msg = body.msg

\* C19 as the specification words it: a non-2xx status gives an HTTP status
\* error whatever the body, a 2xx status with a business code other than 0
\* gives an API error, every 2xx response with business code 0 returns the
\* payload, and the payload is never returned with another business code
C19_Every2xxDecoded ==
    applied.fn = "handle_response" =>
        LET status_code == applied.response.status_code
            body == applied.response.body
            out == applied.out
        IN /\ ~Is2xx(status_code) => out.kind = "raise" /\ out.error = "http"
           /\ (Is2xx(status_code) /\ body.json /\ body.code # 0) => IsApiError(out, body)
           /\ (Is2xx(status_code) /\ body.json /\ body.code = 0) =>
                  out.kind = "return" /\ out.payload = body.data
           /\ (body.json /\ body.code # 0) => out.kind # "return"

\* C19: every status other than 200, the other 2xx statuses included, gives
\* an HTTP status error whatever the body; status 200 with a business code
\* other than 0 gives an API error, resolved against the table when the
\* code is known and else reported as unknown with its code and message;
\* status 200 with business code 0 returns the payload unwrapped; and the
\* payload is never returned with a business code other than 0
C19_ResponseDecoding ==
    applied.fn = "handle_response" =>
        LET status_code == applied.response.status_code
            body == applied.response.body
            out == applied.out
        IN /\ status_code # 200 =>
                  out.kind = "raise" /\ out.error = "http" /\ out.status_code = status_code
           /\ (status_code = 200 /\ body.json /\ body.code # 0) => IsApiError(out, body)
           /\ (status_code = 200 /\ body.json /\ body.code = 0) =>
                  out.kind = "return" /\ out.payload = body.data
           /\ (body.json /\ body.code # 0) => out.kind # "return"
           /\ out.kind = "return" =>
                  status_code = 200 /\ body.json /\ body.code = 0

\* a 201 response with business code 0 is an HTTP status error
C19_Witness ==
    /\ applied.fn = "handle_response"
    /\ applied.response.status_code = 201
    /\ applied.response.body.json
    /\ applied.response.body.code = 0
    /\ applied.out.kind = "raise"
    /\ applied.out.error = "http"

\* the orders in which n items can be taken
Orderings(n) == {f \in [1..n -> 1..n] : \A i, j \in 1..n : i # j => f[i] # f[j]}

Reordered(items, f) == [i \in 1..Len(items) |-> items[f[i]]]

KeysAscend(items) ==
    \A i, j \in 1..Len(items) : i < j => StrLess(items[i][1], items[j][1])

\* C20: the canonical query string is key followed by value for the keys in
\* ascending order, with nothing in between; it is the same for every
\* insertion order of the map; {"b":"2","a":"1"} gives "a1b2"; an empty or
\* absent map gives the empty string
C20_CanonicalQueryOrdering ==
    applied.fn = "sort_params" =>
        LET items == applied.params.items
        IN /\ \E f \in Orderings(Len(items)) :
                  /\ KeysAscend(Reordered(items, f))
                  /\ applied.out = Join(Reordered(items, f))
           /\ \A f \in Orderings(Len(items)) :
                  sort_params([present |-> TRUE, items |-> Reordered(items, f)]) = applied.out
           /\ items = <<>> => applied.out = <<>>
           /\ items = << <<(<<98>>), (<<50>>)>>, <<(<<97>>), (<<49>>)>> >> =>
                  applied.out = <<97, 49, 98, 50>>

\* {"b":"2","a":"1"} gives "a1b2"
C20_Witness ==
    /\ applied.fn = "sort_params"
    /\ applied.params.present
    /\ applied.params.items = << <<(<<98>>), (<<50>>)>>, <<(<<97>>), (<<49>>)>> >>
    /\ applied.out = <<97, 49, 98, 50>>

\* the position of a space in a text
HasWhitespace(text) == \E i \in 1..Len(text) : text[i] = 32

\* C21: for every POST the body is serialized exactly once, the text holds no
\* inserted whitespace, and the text that is signed is the text that is sent.
C21_SignedBodyIsWireBody ==
    applied.fn = "post" =>
        /\ Len(applied.serialized) = 1
        /\ ~HasWhitespace(applied.signed)
        /\ applied.signed = applied.wire

\* the inputs of a call of generate_signature, in the order of its parameters
SignInputs(call) ==
    <<call.api_key, call.secret_key, call.nonce, call.timestamp,
      call.query_params, call.body>>

\* two texts of one length that differ in exactly one position
OneByteApart(a, b) ==
    /\ Len(a) = Len(b)
    /\ Cardinality({i \in 1..Len(a) : a[i] # b[i]}) = 1

\* two calls whose inputs are the same but for one byte of one input
OneInputByteChanged(c, d) ==
    \E k \in 1..6 :
        /\ OneByteApart(SignInputs(c)[k], SignInputs(d)[k])
        /\ \A j \in (1..6) \ {k} : SignInputs(c)[j] = SignInputs(d)[j]

TakeProfitTarget ==
    TakeProfitPrice(position'[symbol].avgOpenPrice, tp_percentage, position'[symbol].side)

\* the target as set_limit_tp_order submits it: rounded down to the tick when
\* the instrument lookup before the placement at j answered, as computed
\* otherwise
SubmittedTakeProfitPrice(j) ==
    IF calls'[j - 1].info = "ok"
    THEN RoundDownToTick(TakeProfitTarget, QuotePrecision(symbol))
    ELSE TakeProfitTarget

\* the next iteration issues one placement of a LIMIT order, trade side
\* CLOSE, opposite the position, for its whole quantity, at the target or
\* at the target as submitted
OneTakeProfitPlaced(submitted) ==
    /\ Cardinality(Idx(calls', "place_order")) = 1
    /\ \A j \in Idx(calls', "place_order") :
          /\ calls'[j].symbol = symbol
          /\ calls'[j].orderType = "LIMIT"
          /\ calls'[j].tradeSide = "CLOSE"
          /\ calls'[j].side = OppositeSide(position'[symbol].side)
          /\ calls'[j].qty = position'[symbol].qty
          /\ calls'[j - 1].op = "get_single_trading_pair_info"
          /\ calls'[j].price =
                 IF submitted THEN SubmittedTakeProfitPrice(j) ELSE TakeProfitTarget

\* the limit orders the take-profit cancel step is to cancel
OpposingLimits(os) ==
    {o \in os : /\ o.symbol = symbol
                /\ ~o.tpsl
                /\ o.orderType = "LIMIT"
                /\ o.side = OppositeSide(position'[symbol].side)}

\* the cancel step before the placement: one lookup of the open orders, one
\* cancellation that names the opposing limit orders it returned and nothing
\* else, and every other open order still pending afterwards
TakeProfitCancelScoped ==
    /\ Cardinality(Idx(calls', "get_symbol_open_orders")) = 1
    /\ \A i \in Idx(calls', "get_symbol_open_orders") :
          /\ \A j \in Idx(calls', "place_order") : i < j
          /\ \A k \in Idx(calls', "cancel_orders") :
                (\E o \in calls'[k].ids : ~o.tpsl) =>
                    /\ k = i + 1
                    /\ calls'[k].ids = OpposingLimits(calls'[i].ids)
          /\ (calls'[i].ok /\ OpposingLimits(calls'[i].ids) # {}) =>
                 /\ calls'[i + 1].op = "cancel_orders"
                 /\ calls'[i + 1].ids = OpposingLimits(calls'[i].ids)
    /\ \A o \in orders : (~o.tpsl /\ o \notin OpposingLimits(orders)) => o \in orders'

\* no call of the take-profit side is issued
NoTakeProfitCalls ==
    /\ Idx(calls', "get_symbol_open_orders") = {}
    /\ Idx(calls', "place_order") = {}
    /\ \A k \in Idx(calls', "cancel_orders") : \A o \in calls'[k].ids : o.tpsl
    /\ {o \in orders' : ~o.tpsl} = {o \in orders : ~o.tpsl}

\* C23 as the specification words it: the one take-profit placement of a
\* reconciling iteration is priced at entry + entry * tp% / 100 for a long
\* position and entry - entry * tp% / 100 for a short one
C23_TakeProfitAtTarget ==
    [][ValueDiffers =>
          IF is_tp_active
          THEN OneTakeProfitPlaced(FALSE) /\ TakeProfitCancelScoped
          ELSE NoTakeProfitCalls]_vars

\* C23: with take-profit enabled a reconciling iteration issues exactly one
\* placement of a LIMIT order, trade side CLOSE, on the side opposite the
\* position, for the whole observed quantity, priced at the target
\* entry +/- entry * tp% / 100 rounded down to the instrument's tick (the
\* target itself when the instrument lookup failed); the cancel step before
\* it cancels the open LIMIT orders on that opposite side and no other
\* order; with take-profit disabled neither call is issued
C23_TakeProfitShapeAndScope ==
    [][ValueDiffers =>
          IF is_tp_active
          THEN OneTakeProfitPlaced(TRUE) /\ TakeProfitCancelScoped
          ELSE NoTakeProfitCalls]_vars

\* a reconciliation cancelled a stale take-profit and placed the new one at
\* a price below its target
C23_Witness ==
    /\ tick.branch = "reconcile"
    /\ is_tp_active
    /\ \E i \in Idx(calls, "get_symbol_open_orders") :
          /\ calls[i].ok
          /\ calls[i + 1].op = "cancel_orders"
          /\ calls[i + 1].ok
          /\ calls[i + 1].ids # {}
    /\ \E j \in Idx(calls, "place_order") :
          /\ calls[j].ok
          /\ calls[j].side = OppositeSide(position[symbol].side)
          /\ calls[j].price <
                 TakeProfitPrice(position[symbol].avgOpenPrice, tp_percentage,
                                 position[symbol].side)

\* the ACTIVE iteration just completed observed an open position, reported
\* with all its fields and a notional value, and did not reach the handler
ObservedOpenUnhandled ==
    /\ tick.wasActive
    /\ PollAnswered
    /\ IsOpen(position[calls[1].symbol])
    /\ tick.branch \notin AnomalousReport
    /\ ~tick.handled

\* the stop-loss placement of the iteration just completed was skipped, or
\* the exchange rejected it
StopLossNotPlaced ==
    \/ Idx(calls, "place_position_tpsl_order") = {}
    \/ \E i \in Idx(calls, "place_position_tpsl_order") : ~calls[i].ok

\* the next iteration observes the open position with the notional value the
\* iteration just completed tracked
SameNotionalAgain ==
    /\ ObservedOpenUnhandled
    /\ is_active
    /\ calls'[1].op = "get_symbol_open_position"
    /\ calls'[1].ok
    /\ IsOpen(position'[symbol])
    /\ tick'.branch \notin AnomalousReport
    /\ position'[symbol].entryValue = position[symbol].entryValue

\* C24: after an ACTIVE iteration that observed an open position and did not
\* reach the handler, the tracked value is the observed notional value, the
\* engine still ACTIVE, also when the stop-loss placement was skipped or
\* rejected; an iteration that then observes the same notional value places
\* no stop-loss and leaves the pending conditional orders as they are
C24_TrackedFollowsObservation ==
    [][ /\ ObservedOpenUnhandled' =>
              /\ is_active'
              /\ tracked_position_value' = position'[symbol'].entryValue
        /\ SameNotionalAgain =>
              /\ Idx(calls', "place_position_tpsl_order") = {}
              /\ Idx(calls', "get_symbol_pending_tpsl_orders") = {}
              /\ {o \in orders' : o.tpsl} = {o \in orders : o.tpsl}
              /\ tracked_position_value' = tracked_position_value ]_vars

\* an iteration found nothing to do for a position that has a positive stop
\* price and no stop-loss pending: the placement that failed was not repeated
C24_Witness ==
    /\ ObservedOpenUnhandled
    /\ tick.branch = "noop"
    /\ TrackedStopPrice > 0
    /\ tracked_position_value = position[symbol].entryValue
    /\ {o \in orders : o.symbol = symbol /\ o.tpsl} = {}

\* x > 0 on floats: false when x is not a number
Positive(x) == x # NaN /\ x > 0

\* C25: between iterations the engine is ACTIVE exactly when it tracks a
\* symbol; while INACTIVE the tracked value is 0 and take-profit is disabled;
\* while ACTIVE the stop-loss budget is positive and an enabled take-profit
\* has a positive percentage.
C25_StateConsistency ==
    /\ is_active <=> symbol # ""
    /\ ~is_active => (tracked_position_value = 0 /\ ~is_tp_active)
    /\ is_active =>
          /\ Positive(stop_loss_usd)
          /\ is_tp_active => Positive(tp_percentage)

====
